---- MODULE Spec2Model ----
(***************************************************************************)
(* A model of gui_dashboard.py: the helper functions (get_security_info,   *)
(* get_safety_check, calculate_health_score) and the data-update handlers  *)
(* of TaskStudyManager (update_system_info, populate_processes,            *)
(* update_panels), refresh_all and its three callers (__init__,            *)
(* auto_refresh, the Refresh button).                                      *)
(*                                                                         *)
(* Numbers.  Percentages are floats with one decimal in the program; the   *)
(* model writes them in units of 1/Tenths percent, so 12.5 % is 125.       *)
(* Time stamps are in ticks of 1/TicksPerSec second.  A network rate is    *)
(* the exact fraction the program's two divisions compute, kept as a       *)
(* record [num, den] with den > 0.                                         *)
(***************************************************************************)
EXTENDS Integers, Sequences, FiniteSets

\* ------------------------------------------------------------------ bounds

\* Resolution of the percentages the model draws (units per percent).
Tenths == 10

\* Resolution of the clock the model draws (ticks per second).
TicksPerSec == 2

\* self.history_len: the capacity of each history deque.  The program sets 60
\* (line 185); the model runs the same deques at a small capacity so that
\* runs longer than the capacity are explored.
history_len == 2

\* Calls of update_panels explored.
MaxPanelCalls == 2

\* Calls of refresh_all explored.
MaxRefreshes == 3

\* Calls of update_system_info explored: one more than the capacity, so that
\* real samples are evicted too.
MaxCycles == history_len + 1

\* ------------------------------------------------------------------ state

VARIABLES
    latest_cpu,      \* self.latest_cpu   (percent, in 1/Tenths)
    latest_ram,      \* self.latest_ram
    latest_disk,     \* self.latest_disk
    failed,          \* the failed-login count handed to calculate_health_score
    health_label,    \* <<>> before the first score, <<score>> afterwards
    cycles,          \* number of handler calls made so far
    cpu_history,     \* self.cpu_history       (deque, oldest first)
    ram_history,     \* self.ram_history
    net_down_history,\* self.net_down_history
    net_up_history,  \* self.net_up_history
    last_net,        \* self.last_net          [bytes_recv, bytes_sent]
    last_net_time,   \* self.last_net_time     (ticks)
    net_down,        \* self.net_down          (KB/s, a fraction)
    net_up,          \* self.net_up
    prev_net,        \* history: last_net and last_net_time before the last call
    sample,          \* history: what the host returned to the last call
    pushed,          \* history: every tuple of values appended so far
    proc_tree,       \* self.proc_tree: the rows of the process table, in order
    enumerated,      \* history: the processes the last enumeration returned
    hist_env,        \* the host's two shell-history files
    safety_label,    \* the message self.safety_label shows (<<>> at first)
    sec_env,         \* the host's authentication-log sources
    sec_result,      \* history: what the last get_security_info returned
    queries,         \* history: the commands the last get_security_info ran
    security_label,  \* the message self.security_label shows (<<>> at first)
    pc,              \* where the Tk thread is: "constructing" (line 204),
                     \* "mainloop", "in_query" (inside subprocess.run), "exited"
    caller,          \* who made the last call of refresh_all
    timers,          \* number of pending self.after(...) callbacks
    timers_at_call,  \* history: timers when the last refresh_all was entered
    steps,           \* history: the steps the last refresh_all completed
    escaped,         \* history: the exception that left the last refresh_all
    failing,         \* history: the collaborators that failed during it
    query_hangs      \* the command the security query runs never exits

scoreVars == <<latest_cpu, latest_ram, latest_disk>>

panelVars == <<failed, health_label>>

samplerVars ==
    <<cpu_history, ram_history, net_down_history, net_up_history, last_net,
      last_net_time, net_down, net_up, prev_net, sample, pushed>>

procVars == <<proc_tree, enumerated>>

safetyVars == <<hist_env, safety_label>>

securityVars == <<sec_env, sec_result, queries, security_label>>

cycleVars ==
    <<pc, caller, timers, timers_at_call, steps, escaped, failing, query_hangs>>

vars ==
    <<scoreVars, panelVars, samplerVars, procVars, safetyVars, securityVars,
      cycleVars, cycles>>

\* ------------------------------------------------------- python arithmetic

\* (a rounding toward minus infinity instead)
PyIntFloor(n, d) == n \div d

\* int(n / d) for d > 0: Python's int() truncates a float toward zero.
PyInt(n, d) == IF n >= 0 THEN n \div d ELSE -((-n) \div d)

Min(a, b) == IF a < b THEN a ELSE b

\* ------------------------------------------------------------ construction

\* A rate: the fraction num/den, den > 0.
Rat(n, d) == [num |-> n, den |-> d]

\* The 0 and 0.0 the constructor stores (lines 186-194).
Zero == Rat(0, 1)

Zeros(n) == [i \in 1 .. n |-> 0]

ZeroRates(n) == [i \in 1 .. n |-> Zero]

\* lines 184-194: the fields __init__ sets, `counters` being what
\* psutil.net_io_counters() returns at line 191; the clock starts at tick 0.
SamplerFields(counters) ==
    /\ cpu_history = Zeros(history_len)
    /\ ram_history = Zeros(history_len)
    /\ net_down_history = ZeroRates(history_len)
    /\ net_up_history = ZeroRates(history_len)
    /\ last_net = counters
    /\ last_net_time = 0
    /\ net_down = Zero
    /\ net_up = Zero
    /\ prev_net = [bytes_recv |-> counters.bytes_recv,
                   bytes_sent |-> counters.bytes_sent, time |-> 0]
    /\ sample = [cpu |-> 0, ram |-> 0, disk |-> 0, now |-> 0,
                 bytes_recv |-> counters.bytes_recv,
                 bytes_sent |-> counters.bytes_sent]
    /\ pushed = <<>>

\* An optional value: <<>> is None, <<v>> is v.
None == <<>>

Some(v) == <<v>>

\* lines 246-251: the table is created empty.
ProcFields ==
    /\ proc_tree = <<>>
    /\ enumerated = <<>>

\* A history file: whether it exists, whether open() succeeds, its lines.
HistFile(e, r, ls) == [exists |-> e, readable |-> r, lines |-> ls]

NoFile == HistFile(FALSE, FALSE, <<>>)

NoHistory == [bash |-> NoFile, zsh |-> NoFile]

\* lines 274-284: the label starts with no message.
SafetyFields(env) ==
    /\ hist_env = env
    /\ safety_label = <<>>

\* What subprocess.run gave: an exception, or a return code and the text of
\* stdout.
Outcome(r, rc, out) == [raised |-> r, returncode |-> rc, stdout |-> out]

RunRaised == Outcome(TRUE, 0, <<>>)

\* What `sh -c "journalctl -p 3 -xb | grep -c 'Failed password'"` gives on a
\* host with no journalctl (line 93): the exit status of a pipeline is that of
\* its last command, and grep -c, reading nothing, prints 0 and exits 1.
NoJournalctlOutcome == Outcome(FALSE, 1, <<"0", "\n">>)

\* The sources of authentication data: whether /var/log/auth.log exists and
\* what grep does on it, whether the host has journalctl and what the journal
\* pipeline does.
AuthSources(e, g, jc, j) ==
    [auth_log_exists |-> e, grep |-> g, journalctl |-> jc, journal |-> j]

NoAuthData == AuthSources(FALSE, RunRaised, FALSE, NoJournalctlOutcome)

\* lines 274-288: the label starts with no message; nothing was queried yet.
SecurityFields(env) ==
    /\ sec_env = env
    /\ sec_result = [status |-> "", count |-> 0]
    /\ queries = <<>>
    /\ security_label = <<>>

\* lines 164-203: __init__ has built the window and is about to make the
\* first call of refresh_all (line 204); no timer is armed yet.
CycleFields ==
    /\ pc = "constructing"
    /\ caller = "__init__"
    /\ timers = 0
    /\ timers_at_call = 0
    /\ steps = <<>>
    /\ escaped = None
    /\ failing = {}
    /\ query_hangs = FALSE

\* -------------------------------------------------- calculate_health_score

\* (a cap that drops the penalty instead of limiting it)
SecurityPenaltyDropped(failed_logins) ==
    IF failed_logins > 0 /\ failed_logins * 2 <= 20 THEN failed_logins * 2 ELSE 0

\* lines 141-142
SecurityPenalty(failed_logins) ==
    IF failed_logins > 0 THEN Min(20, failed_logins * 2) ELSE 0

\* (no clamp at all)
ClampNone(score) == score

\* lines 144-147
ClampScore(score) ==
    IF score < 0 THEN 0 ELSE IF score > 100 THEN 100 ELSE score

\* lines 131-148; the percentages arrive in 1/Tenths percent
calculate_health_score(cpu_percent, ram_percent, disk_percent, failed_logins) ==
    ClampScore(100 - PyInt(cpu_percent, 2 * Tenths)
                   - PyInt(ram_percent, 3 * Tenths)
                   - PyInt(disk_percent, 4 * Tenths)
                   - SecurityPenalty(failed_logins))

\* -------------------------------------------------------- get_safety_check

\* A text is the tuple of its characters.
Whitespace == {" ", "\n", "\t"}

\* str.strip()
RECURSIVE LStrip(_)
LStrip(t) ==
    IF t # <<>> /\ Head(t) \in Whitespace THEN LStrip(Tail(t)) ELSE t

RECURSIVE RStrip(_)
RStrip(t) ==
    IF t # <<>> /\ t[Len(t)] \in Whitespace
    THEN RStrip(SubSeq(t, 1, Len(t) - 1)) ELSE t

Strip(t) == RStrip(LStrip(t))

\* `bad in line`
Contains(bad, line) ==
    \E i \in 1 .. (Len(line) - Len(bad) + 1) :
        SubSeq(line, i, i + Len(bad) - 1) = bad

\* lines 109-115
dangerous_keywords ==
    << <<"r", "m", " ", "-", "r", "f", " ", "/">>,
       <<"m", "k", "f", "s">>,
       <<":", "(", ")", "{", " ", ":", "|", ":", "&", " ", "}", ";", ":">>,
       <<"c", "h", "m", "o", "d", " ", "7", "7", "7">>,
       <<"d", "d", " ", "i", "f", "=">> >>

\* The lines a history file is made of here, by name, each as the file holds it.
LineKinds ==
    {"ls", "blank", "empty", "mkfs", "chmod", "chmod_mkfs", "rm", "dd", "bomb", "rmdir"}

LineText(k) ==
    CASE k = "ls" ->
           <<"l", "s", " ", "-", "l", "a", "\n">>
      [] k = "blank" ->
           <<" ", " ", "\n">>
      [] k = "empty" ->
           <<"\n">>
      [] k = "mkfs" ->
           <<"m", "k", "f", "s", " ", "/", "d", "e", "v", "/", "s", "d",
           "a", "\n">>
      [] k = "chmod" ->
           <<"c", "h", "m", "o", "d", " ", "7", "7", "7", " ", "/", "e",
           "t", "c", "\n">>
      [] k = "chmod_mkfs" ->
           <<"c", "h", "m", "o", "d", " ", "7", "7", "7", " ", "x", ";", 
           " ", "m", "k", "f", "s", " ", "y", "\n">>
      [] k = "rm" ->
           <<" ", " ", "s", "u", "d", "o", " ", "r", "m", " ", "-", "r",
           "f", " ", "/", "t", "m", "p", "/", "x", "\n">>
      [] k = "dd" ->
           <<"d", "d", " ", "i", "f", "=", "/", "d", "e", "v", "/", "z",
           "e", "r", "o", " ", "o", "f", "=", "f", "\n">>
      [] k = "bomb" ->
           <<":", "(", ")", "{", " ", ":", "|", ":", "&", " ", "}", ";",
           ":", "\n">>
      [] k = "rmdir" ->
           <<"r", "m", " ", "-", "r", " ", "f", "\n">>

\* l.strip() of each kind of line, computed once.
Stripped == [k \in LineKinds |-> Strip(LineText(k))]

\* lines 125-127 for one line: the index of the first keyword of the list
\* the line contains, 0 when it contains none.
FirstBad(line) ==
    IF \E b \in 1 .. Len(dangerous_keywords) : Contains(dangerous_keywords[b], line)
    THEN CHOOSE b \in 1 .. Len(dangerous_keywords) :
           /\ Contains(dangerous_keywords[b], line)
           /\ \A c \in 1 .. (b - 1) : ~Contains(dangerous_keywords[c], line)
    ELSE 0

FirstBadOf == [k \in LineKinds |-> FirstBad(Stripped[k])]

\* lines 15-24
get_history_file(env) ==
    IF env.bash.exists THEN "bash"
    ELSE IF env.zsh.exists THEN "zsh"
    ELSE "None"

\* lines 48, 119: [l.strip() for l in f if l.strip()], the lines kept by name
NonBlankLines(ls) == SelectSeq(ls, LAMBDA k : Stripped[k] # <<>>)

\* (no window: every line of the file is scanned)
RecentAll(ls) == ls

\* line 123: lines[-80:]
Recent(ls) == IF Len(ls) > 80 THEN SubSeq(ls, Len(ls) - 80 + 1, Len(ls)) ELSE ls

\* lines 124-129: the first line, oldest first, that contains a keyword
RECURSIVE ScanLines(_)
ScanLines(recent) ==
    IF recent = <<>> THEN <<"No extremely dangerous command found">>
    ELSE IF FirstBadOf[Head(recent)] # 0
         THEN <<"WARNING: Dangerous command found -> ",
                dangerous_keywords[FirstBadOf[Head(recent)]]>>
         ELSE ScanLines(Tail(recent))

\* lines 103-129
get_safety_check(env) ==
    LET history_file == get_history_file(env)
    IN  IF history_file = "None" THEN <<"History file not found">>
        ELSE IF ~env[history_file].readable THEN <<"Error reading history">>
        ELSE ScanLines(Recent(NonBlankLines(env[history_file].lines)))

\* ------------------------------------------------------ get_security_info

Digits == <<"0", "1", "2", "3", "4", "5", "6", "7", "8", "9">>

IsDigit(c) == \E d \in 1 .. 10 : Digits[d] = c

DigitValue(c) == (CHOOSE d \in 1 .. 10 : Digits[d] = c) - 1

RECURSIVE DigitsValue(_, _)
DigitsValue(t, acc) ==
    IF t = <<>> THEN acc
    ELSE DigitsValue(Tail(t), 10 * acc + DigitValue(Head(t)))

\* int(text): surrounding whitespace and one sign are accepted, then digits
\* only; anything else is a ValueError.
IntOf(text) ==
    LET t == Strip(text)
        signed == t # <<>> /\ Head(t) \in {"+", "-"}
        ds == IF signed THEN Tail(t) ELSE t
    IN  IF ds = <<>> \/ \E i \in 1 .. Len(ds) : ~IsDigit(ds[i])
        THEN [ok |-> FALSE, value |-> 0]
        ELSE [ok |-> TRUE,
              value |-> IF signed /\ Head(t) = "-"
                        THEN -DigitsValue(ds, 0) ELSE DigitsValue(ds, 0)]

SecurityResult(s, c) == [status |-> s, count |-> c]

\* (the count is parsed before the return code is looked at)
FileBranchCountFirst(run) ==
    IF run.raised THEN SecurityResult("Error parsing auth.log", 0)
    ELSE LET text == Strip(run.stdout)
             n == IF text = <<>> THEN [ok |-> TRUE, value |-> 0] ELSE IntOf(text)
         IN  IF ~n.ok THEN SecurityResult("Error parsing auth.log", 0)
             ELSE IF run.returncode \notin {0, 1}
                  THEN SecurityResult("Error reading auth.log", n.value)
                  ELSE SecurityResult("OK", n.value)

\* lines 78-89: grep -c on the auth log
FileBranch(run) ==
    IF run.raised THEN SecurityResult("Error parsing auth.log", 0)
    ELSE IF run.returncode \notin {0, 1}
         THEN SecurityResult("Error reading auth.log", 0)
         ELSE LET text == Strip(run.stdout)
              IN  IF text = <<>> THEN SecurityResult("OK", 0)
                  ELSE IF IntOf(text).ok
                       THEN SecurityResult("OK", IntOf(text).value)
                       ELSE SecurityResult("Error parsing auth.log", 0)

\* lines 92-101: the journal pipeline
JournalBranch(run) ==
    IF run.raised THEN SecurityResult("No auth data available", 0)
    ELSE IF run.returncode \notin {0, 1}
         THEN SecurityResult("Error reading journal", 0)
         ELSE LET count_str == Strip(run.stdout)
              IN  IF count_str = <<>> THEN SecurityResult("OK", 0)
                  ELSE IF IntOf(count_str).ok
                       THEN SecurityResult("OK", IntOf(count_str).value)
                       ELSE SecurityResult("No auth data available", 0)

\* line 94: what running the pipeline gives on this host
JournalRun(env) ==
    IF env.journalctl THEN env.journal ELSE NoJournalctlOutcome

\* lines 67-101
get_security_info(env) ==
    IF env.auth_log_exists THEN FileBranch(env.grep)
    ELSE JournalBranch(JournalRun(env))

\* The commands get_security_info runs (lines 79 and 94).
QueriesRun(env) ==
    IF env.auth_log_exists THEN <<"grep">> ELSE <<"journalctl">>

\* ------------------------------------------------------ update_system_info

\* (the divisor of the specification: max(elapsed, 1.0))
DtMax(now, last_time) ==
    IF now - last_time > TicksPerSec THEN now - last_time ELSE TicksPerSec

\* line 363: dt = now - self.last_net_time if now > self.last_net_time else 1.0
\* (in ticks)
Dt(now, last_time) ==
    IF now > last_time THEN now - last_time ELSE TicksPerSec

\* lines 365-366: delta / dt / 1024.0 with dt in seconds, as a fraction
NetRate(delta, dt) == Rat(delta * TicksPerSec, dt * 1024)

\* (an append that keeps the oldest value and drops the new one when full)
DequeAppendKeepOldest(d, v) ==
    IF Len(d) >= history_len THEN d ELSE Append(d, v)

\* deque.append on a deque of maxlen history_len (lines 186-189, 388-391)
DequeAppend(d, v) ==
    IF Len(d) >= history_len THEN Append(Tail(d), v) ELSE Append(d, v)

\* lines 341-391.  cpu, ram_percent, percent, now and counters are what
\* psutil and time.time() return at lines 343, 346, 350, 361 and 362.  The
\* labels written at lines 372-380 only display these values.
update_system_info(cpu, ram_percent, percent, now, counters) ==
    LET dt == Dt(now, last_net_time)
        down == NetRate(counters.bytes_recv - last_net.bytes_recv, dt)
        up == NetRate(counters.bytes_sent - last_net.bytes_sent, dt)
    IN  /\ net_down' = down
        /\ net_up' = up
        /\ last_net' = counters
        /\ last_net_time' = now
        /\ latest_cpu' = cpu
        /\ latest_ram' = ram_percent
        /\ latest_disk' = percent
        /\ cpu_history' = DequeAppend(cpu_history, cpu)
        /\ ram_history' = DequeAppend(ram_history, ram_percent)
        /\ net_down_history' = DequeAppend(net_down_history, down)
        /\ net_up_history' = DequeAppend(net_up_history, up)
        /\ prev_net' = [bytes_recv |-> last_net.bytes_recv,
                        bytes_sent |-> last_net.bytes_sent,
                        time |-> last_net_time]
        /\ sample' = [cpu |-> cpu, ram |-> ram_percent, disk |-> percent,
                      now |-> now, bytes_recv |-> counters.bytes_recv,
                      bytes_sent |-> counters.bytes_sent]
        /\ pushed' = Append(pushed, [cpu |-> cpu, ram |-> ram_percent,
                                     down |-> down, up |-> up])

\* ------------------------------------------------------ populate_processes

\* f"{x:.1f}" of a non-negative value given in hundredths: the value in
\* tenths, rounded to nearest.
FormatTenths(hundredths) == (hundredths + 5) \div 10

\* lines 406-409: None becomes 0.0
OrZero(opt) == IF opt = None THEN 0 ELSE opt[1]

\* lines 412-417; cpu in 1/Tenths percent
CpuTag(cpu) ==
    IF cpu < 20 * Tenths THEN "cpu_low"
    ELSE IF cpu < 50 * Tenths THEN "cpu_mid"
    ELSE "cpu_high"

\* lines 401-423: the row inserted for a process whose fields were read.
\* cpu_percent is rounded to one decimal by psutil, memory_percent is not.
ProcRow(proc) ==
    [pid |-> proc.pid, name |-> proc.name,
     cpu |-> OrZero(proc.cpu_percent),
     mem |-> FormatTenths(OrZero(proc.memory_percent)),
     tag |-> CpuTag(OrZero(proc.cpu_percent))]

\* lines 424-425: the two exceptions the loop catches
Caught(proc) == proc.raises \in {"NoSuchProcess", "AccessDenied"}

\* (a loop that stops at the first process that raises)
RECURSIVE InsertAllBreak(_, _)
InsertAllBreak(rows, procs) ==
    IF procs = <<>> THEN rows
    ELSE IF Caught(Head(procs)) THEN rows
    ELSE InsertAllBreak(Append(rows, ProcRow(Head(procs))), Tail(procs))

\* lines 399-425: the loop over psutil.process_iter; a process that raises
\* inside the try block is skipped (continue), the others are inserted at the
\* end of the table.
RECURSIVE InsertAll(_, _)
InsertAll(rows, procs) ==
    IF procs = <<>> THEN rows
    ELSE IF Caught(Head(procs)) THEN InsertAll(rows, Tail(procs))
    ELSE InsertAll(Append(rows, ProcRow(Head(procs))), Tail(procs))

\* lines 395-396: every old row is deleted
ClearRows(rows) == <<>>

\* lines 393-425; procs is what psutil.process_iter yields, in order
populate_processes(procs) ==
    /\ proc_tree' = InsertAll(ClearRows(proc_tree), procs)
    /\ enumerated' = procs

\* ---------------------------------------------------------- update_panels

\* lines 444-446: a status other than OK zeroes the count
FailedForScore(sec) == IF sec.status # "OK" THEN 0 ELSE sec.count

\* lines 438-440: the safety checker part of update_panels, which runs before
\* the security query is started.
SafetyChecker(henv) ==
    /\ hist_env' = henv
    /\ safety_label' = get_safety_check(henv)

\* lines 442-460: the security panel and the health score, from the moment
\* get_security_info is called.
SecurityPanel(cpu, ram, disk, senv) ==
    LET sec == get_security_info(senv)
    IN  /\ sec_env' = senv
        /\ sec_result' = sec
        /\ queries' = QueriesRun(senv)
        /\ security_label' =
              (IF sec.status # "OK" THEN <<sec.status>>
               ELSE <<"Failed logins today = ", sec.count>>)
        /\ failed' = FailedForScore(sec)
        /\ health_label' =
              <<calculate_health_score(cpu, ram, disk, FailedForScore(sec))>>

\* lines 427-465.  cpu, ram and disk are self.latest_cpu, self.latest_ram and
\* self.latest_disk as the call reads them; henv and senv are the history
\* files and the authentication sources of the host during the call.  The
\* study-tracker and command-of-the-day labels (lines 429-436, 463-465) are
\* written from get_study_stats and random.choice and read by nothing else.
update_panels(cpu, ram, disk, henv, senv) ==
    /\ SafetyChecker(henv)
    /\ SecurityPanel(cpu, ram, disk, senv)

\* ------------------------------------------------------------- refresh_all

\* lines 323-326: the four steps of refresh_all, in order
RefreshSteps ==
    <<"update_system_info", "populate_processes", "update_panels",
      "update_graphs">>

\* lines 343-362: the reads update_system_info makes, in the order it makes
\* them (cpu and memory at 343-346, disk usage at 350, network counters at
\* 362).  None of them is inside a try block, so the first one that raises
\* ends the call; `fails` is the set of reads that raise on this host.
FirstFailure(fails) ==
    IF "metrics" \in fails THEN Some("metrics")
    ELSE IF "disk" \in fails THEN Some("disk")
    ELSE IF "net" \in fails THEN Some("net")
    ELSE None

\* Where the Tk thread goes when an exception leaves refresh_all: out of
\* __init__ and of the script (lines 204, 649), or back to the main loop,
\* which reports the exception of a callback and goes on.
AfterException(who) == IF who = "__init__" THEN "exited" ELSE "mainloop"

\* get_safety_check and get_study_stats catch the failure of open() (lines
\* 46-50, 118-121).
HistoryFails(henv) ==
    /\ get_history_file(henv) # "None"
    /\ ~henv[get_history_file(henv)].readable

\* lines 323-325 and 427-443: refresh_all from its entry to the call of
\* subprocess.run inside get_security_info.  r holds what the host returns
\* to this call.  update_system_info writes its fields only after its last
\* read (line 365), so a read that raises leaves every field as it was; the
\* iteration of psutil.process_iter (line 399) is outside the try block of
\* populate_processes, so an enumeration that raises after yielding r.procs
\* leaves populate_processes and refresh_all with those rows inserted.
refresh_all_begin(who, r) ==
    LET f == FirstFailure(r.fails)
    IN  /\ caller' = who
        /\ cycles' = cycles + 1
        /\ IF f # None
           THEN /\ escaped' = f
                /\ failing' = {f[1]}
                /\ steps' = <<>>
                /\ pc' = AfterException(who)
                /\ UNCHANGED <<scoreVars, panelVars, samplerVars, procVars,
                               safetyVars, securityVars, query_hangs>>
           ELSE /\ update_system_info(r.cpu, r.ram, r.disk,
                                      last_net_time + r.step, r.counters)
                /\ populate_processes(r.procs)
                /\ IF "processes" \in r.fails
                   THEN /\ escaped' = Some("processes")
                        /\ failing' = {"processes"}
                        /\ steps' = SubSeq(RefreshSteps, 1, 1)
                        /\ pc' = AfterException(who)
                        /\ UNCHANGED <<panelVars, safetyVars, securityVars,
                                       query_hangs>>
                   ELSE /\ SafetyChecker(r.henv)
                        /\ sec_env' = r.senv
                        /\ query_hangs' = r.hangs
                        /\ escaped' = None
                        /\ failing' =
                             (IF HistoryFails(r.henv) THEN {"history"} ELSE {})
                        /\ steps' = SubSeq(RefreshSteps, 1, 2)
                        /\ pc' = "in_query"
                        /\ UNCHANGED <<panelVars, sec_result, queries,
                                       security_label>>

\* (a Refresh button bound to auto_refresh)
TimersAfterReturnAlways(who, n) == n + 1

\* lines 204-208, 328-330 and 307: __init__ and auto_refresh call
\* self.after(self.refresh_ms, self.auto_refresh) once refresh_all has
\* returned; the Refresh button is bound to refresh_all itself.
TimersAfterReturn(who, n) ==
    IF who \in {"__init__", "auto_refresh"} THEN n + 1 ELSE n

\* lines 94-101, 443-465, 326 and the caller's next line: subprocess.run has
\* returned (or raised, which get_security_info catches); the rest of
\* update_panels and update_graphs run, refresh_all returns and its caller
\* goes on.
refresh_all_end ==
    /\ SecurityPanel(latest_cpu, latest_ram, latest_disk, sec_env)
    /\ failing' =
         (IF get_security_info(sec_env).status # "OK"
          THEN failing \cup {"security"} ELSE failing)
    /\ steps' = RefreshSteps
    /\ pc' = "mainloop"
    /\ timers' = TimersAfterReturn(caller, timers)
    /\ UNCHANGED <<scoreVars, samplerVars, procVars, safetyVars, caller,
                   timers_at_call, escaped, query_hangs, cycles>>

\* -------------------------------- calculate_health_score on its own inputs

CpuInputs == {-30, -10, 0, 10, 15, 500, 1000, 1500}

RamInputs == {-100, -10, 0, 300, 990, 1000}

DiskInputs == {-5, 0, 400, 1000, 5000}

FailedInputs == {-1, 0, 1, 5, 10, 11, 1000}

HealthInit ==
    /\ latest_cpu \in CpuInputs
    /\ latest_ram \in RamInputs
    /\ latest_disk \in DiskInputs
    /\ failed \in FailedInputs
    /\ health_label = <<>>
    /\ cycles = 0
    /\ SamplerFields([bytes_recv |-> 0, bytes_sent |-> 0])
    /\ ProcFields
    /\ SafetyFields(NoHistory)
    /\ SecurityFields(NoAuthData)
    /\ CycleFields

\* One call of calculate_health_score on the drawn arguments.
ScoreCall ==
    /\ cycles = 0
    /\ health_label' =
         <<calculate_health_score(latest_cpu, latest_ram, latest_disk, failed)>>
    /\ cycles' = cycles + 1
    /\ UNCHANGED <<latest_cpu, latest_ram, latest_disk, failed, samplerVars,
                   procVars, safetyVars, securityVars, cycleVars>>

HealthNext == ScoreCall

SpecHealth == HealthInit /\ [][HealthNext]_vars

Scored == health_label # <<>>

Health == health_label[1]

\* C1: for every input, out-of-range and negative ones included,
\* calculate_health_score returns a value in [0, 100].
C1_ScoreInRange == Scored => (Health >= 0 /\ Health <= 100)

\* The spec's robustness example cpu=150, ram=-10, disk=500, failed=1000.
C1_Witness ==
    /\ Scored
    /\ latest_cpu = 150 * Tenths /\ latest_ram = -10 * Tenths
    /\ latest_disk = 500 * Tenths /\ failed = 1000
    /\ Health = 0

\* The formula of the specification (section 4.6), written on its own:
\* floor division, the capped login penalty, the clamp.
FloorDiv(n, d) == n \div d

SpecPenalty(f) == IF f > 0 THEN (IF 2 * f < 20 THEN 2 * f ELSE 20) ELSE 0

Cap(x) == IF x < 0 THEN 0 ELSE IF x > 100 THEN 100 ELSE x

\* q is n/d rounded toward zero (d > 0).
IsTrunc(q, n, d) ==
    IF n >= 0 THEN q * d <= n /\ n < (q + 1) * d
              ELSE q * d >= n /\ n > (q - 1) * d

QRange == -200 .. 200

TruncOf(n, d) == CHOOSE q \in QRange : IsTrunc(q, n, d)

\* C2 as stated: the score is clamp(100 - floor(cpu/2) - floor(ram/3) -
\* floor(disk/4) - p, 0, 100) with floor rounding for every input, negative
\* ones included.
C2_FloorEverywhere ==
    Scored =>
        Health = Cap(100 - FloorDiv(latest_cpu, 2 * Tenths)
                         - FloorDiv(latest_ram, 3 * Tenths)
                         - FloorDiv(latest_disk, 4 * Tenths)
                         - SpecPenalty(failed))

\* C2 amended: the score is clamp(100 - t(cpu/2) - t(ram/3) - t(disk/4) - p,
\* 0, 100) where t rounds toward zero (floor for a non-negative input, ceiling
\* for a negative one) and p = min(20, 2*failed_logins) if failed_logins > 0,
\* else 0; (0,0,0,0) gives 100 and (100,99,100,5) gives 0.
C2_TruncTowardZero ==
    Scored =>
        /\ Health = Cap(100 - TruncOf(latest_cpu, 2 * Tenths)
                             - TruncOf(latest_ram, 3 * Tenths)
                             - TruncOf(latest_disk, 4 * Tenths)
                             - SpecPenalty(failed))
        /\ (latest_cpu >= 0 /\ latest_ram >= 0 /\ latest_disk >= 0)
              => Health = Cap(100 - FloorDiv(latest_cpu, 2 * Tenths)
                                  - FloorDiv(latest_ram, 3 * Tenths)
                                  - FloorDiv(latest_disk, 4 * Tenths)
                                  - SpecPenalty(failed))
        /\ (latest_cpu = 0 /\ latest_ram = 0 /\ latest_disk = 0 /\ failed = 0)
              => Health = 100
        /\ (latest_cpu = 100 * Tenths /\ latest_ram = 99 * Tenths
              /\ latest_disk = 100 * Tenths /\ failed = 5)
              => Health = 0

\* cpu = -1.0 %, ram = 30.0 %: int(-0.5) is 0, so the score is 90 (floor
\* would give 91).
C2_Witness ==
    /\ Scored
    /\ latest_cpu = -Tenths /\ latest_ram = 30 * Tenths
    /\ latest_disk = 0 /\ failed = 0
    /\ Health = 90

\* C3: the score is non-increasing in each of the four arguments taken
\* separately, the other three held fixed.
C3_NonIncreasing ==
    Scored =>
        /\ \A c \in CpuInputs : c >= latest_cpu =>
              calculate_health_score(c, latest_ram, latest_disk, failed) <= Health
        /\ \A r \in RamInputs : r >= latest_ram =>
              calculate_health_score(latest_cpu, r, latest_disk, failed) <= Health
        /\ \A d \in DiskInputs : d >= latest_disk =>
              calculate_health_score(latest_cpu, latest_ram, d, failed) <= Health
        /\ \A f \in FailedInputs : f >= failed =>
              calculate_health_score(latest_cpu, latest_ram, latest_disk, f) <= Health

\* A scored state from which raising each argument alone strictly lowers
\* the score.
C3_Witness ==
    /\ Scored
    /\ \E c \in CpuInputs : c > latest_cpu /\
          calculate_health_score(c, latest_ram, latest_disk, failed) < Health
    /\ \E r \in RamInputs : r > latest_ram /\
          calculate_health_score(latest_cpu, r, latest_disk, failed) < Health
    /\ \E d \in DiskInputs : d > latest_disk /\
          calculate_health_score(latest_cpu, latest_ram, d, failed) < Health
    /\ \E f \in FailedInputs : f > failed /\
          calculate_health_score(latest_cpu, latest_ram, latest_disk, f) < Health

\* --------------------------------------------- calls of update_system_info

\* What the host can return: percentages in [0, 100], cumulative byte
\* counters that may also restart from a smaller value, and a clock that may
\* stand still or step back between two readings.
MetricInputs ==
    { [cpu |-> 125, ram |-> 400, disk |-> 550],
      [cpu |-> 1000, ram |-> 990, disk |-> 1000] }

CounterInputs ==
    { [bytes_recv |-> 0, bytes_sent |-> 0],
      [bytes_recv |-> 5120, bytes_sent |-> 1024] }

TimeSteps == {-1, 0, 1, TicksPerSec}

SamplerInit ==
    /\ latest_cpu = 0 /\ latest_ram = 0 /\ latest_disk = 0
    /\ failed = 0
    /\ health_label = <<>>
    /\ cycles = 0
    /\ \E c \in CounterInputs : SamplerFields(c)
    /\ ProcFields
    /\ SafetyFields(NoHistory)
    /\ SecurityFields(NoAuthData)
    /\ CycleFields

\* One call of update_system_info.
Sample ==
    /\ cycles < MaxCycles
    /\ \E m \in MetricInputs, c \in CounterInputs, step \in TimeSteps :
          update_system_info(m.cpu, m.ram, m.disk, last_net_time + step, c)
    /\ cycles' = cycles + 1
    /\ UNCHANGED <<panelVars, procVars, safetyVars, securityVars, cycleVars>>

SamplerNext == Sample

SpecSampler == SamplerInit /\ [][SamplerNext]_vars

Sampled == cycles > 0

LastN(s, n) == SubSeq(s, Len(s) - n + 1, Len(s))

PushedCpu == [i \in 1 .. Len(pushed) |-> pushed[i].cpu]

PushedRam == [i \in 1 .. Len(pushed) |-> pushed[i].ram]

PushedDown == [i \in 1 .. Len(pushed) |-> pushed[i].down]

PushedUp == [i \in 1 .. Len(pushed) |-> pushed[i].up]

\* C4: each of the four history channels starts as history_len zeros and,
\* after any number of calls, holds exactly history_len values: oldest to
\* newest, the last history_len values appended, the initial zeros standing in
\* while fewer have been appended.
C4_HistoryWindow ==
    /\ Len(cpu_history) = history_len
    /\ Len(ram_history) = history_len
    /\ Len(net_down_history) = history_len
    /\ Len(net_up_history) = history_len
    /\ cpu_history = LastN(Zeros(history_len) \o PushedCpu, history_len)
    /\ ram_history = LastN(Zeros(history_len) \o PushedRam, history_len)
    /\ net_down_history = LastN(ZeroRates(history_len) \o PushedDown, history_len)
    /\ net_up_history = LastN(ZeroRates(history_len) \o PushedUp, history_len)

\* More values appended than the capacity: the first real sample has been
\* evicted, and the window holds differing values in order.
C4_Witness ==
    /\ Len(pushed) > history_len
    /\ pushed[1].cpu # cpu_history[1]
    /\ cpu_history[1] # cpu_history[history_len]
    /\ cpu_history[history_len] = pushed[Len(pushed)].cpu
    /\ net_down_history[1] # net_down_history[history_len]

\* C5: after every call net_down and net_up, and every value in the two
\* network history channels, are >= 0 (a counter that went down yields 0).
C5_RatesNonNegative ==
    /\ net_down.num >= 0
    /\ net_up.num >= 0
    /\ \A i \in 1 .. Len(net_down_history) : net_down_history[i].num >= 0
    /\ \A i \in 1 .. Len(net_up_history) : net_up_history[i].num >= 0

\* Equality of two fractions with positive denominators.
RatEq(a, b) == a.num * b.den = b.num * a.den

\* bytes / seconds / 1024 with the seconds given in ticks.
KBperSec(bytes, ticks) == Rat(bytes * TicksPerSec, ticks * 1024)

Elapsed == sample.now - prev_net.time

RecvDelta == sample.bytes_recv - prev_net.bytes_recv

SentDelta == sample.bytes_sent - prev_net.bytes_sent

MaxOf(a, b) == IF a >= b THEN a ELSE b

\* C6 as stated: the divisor is max(now - previous_timestamp, 1.0), so an
\* elapsed interval strictly between 0 and 1.0 is raised to 1.0.
C6_DivisorIsMax ==
    Sampled =>
        /\ RatEq(net_down, KBperSec(RecvDelta, MaxOf(Elapsed, TicksPerSec)))
        /\ RatEq(net_up, KBperSec(SentDelta, MaxOf(Elapsed, TicksPerSec)))

\* C6 amended: the divisor is now - previous_timestamp when that is positive
\* and 1.0 otherwise.  A zero or negative elapsed interval never divides by
\* zero, an elapsed interval strictly between 0 and 1.0 is used as it is, a
\* received-byte delta of 5120 over an elapsed 1.0 yields 5.0, and afterwards
\* the stored counters and time stamp are the ones just read.
C6_DivisorIsElapsedOrOne ==
    Sampled =>
        LET divisor == IF Elapsed > 0 THEN Elapsed ELSE TicksPerSec
        IN  /\ net_down.den > 0
            /\ net_up.den > 0
            /\ RatEq(net_down, KBperSec(RecvDelta, divisor))
            /\ RatEq(net_up, KBperSec(SentDelta, divisor))
            /\ (RecvDelta = 5120 /\ Elapsed = TicksPerSec)
                  => net_down.num = 5 * net_down.den
            /\ last_net.bytes_recv = sample.bytes_recv
            /\ last_net.bytes_sent = sample.bytes_sent
            /\ last_net_time = sample.now

\* 5120 bytes received over an elapsed interval strictly between 0 and 1.0:
\* the rate is above 5.0, the interval was not raised to 1.0.
C6_Witness ==
    /\ Sampled
    /\ Elapsed > 0 /\ Elapsed < TicksPerSec
    /\ RecvDelta = 5120
    /\ net_down.num > 5 * net_down.den

\* --------------------------------------------- calls of populate_processes

\* The processes of the host: distinct pids; cpu on both sides of the two
\* thresholds, absent values, and the two failures of a read.
ProcessTable ==
    { [pid |-> 1,  name |-> "init",    cpu_percent |-> None,
       memory_percent |-> None,       raises |-> "none"],
      [pid |-> 20, name |-> "bash",    cpu_percent |-> Some(199),
       memory_percent |-> Some(123),  raises |-> "none"],
      [pid |-> 21, name |-> "python3", cpu_percent |-> Some(200),
       memory_percent |-> Some(0),    raises |-> "none"],
      [pid |-> 22, name |-> "firefox", cpu_percent |-> Some(499),
       memory_percent |-> Some(1288), raises |-> "none"],
      [pid |-> 23, name |-> "nmap",    cpu_percent |-> Some(500),
       memory_percent |-> None,       raises |-> "none"],
      [pid |-> 30, name |-> "gone",    cpu_percent |-> Some(10),
       memory_percent |-> Some(10),   raises |-> "NoSuchProcess"],
      [pid |-> 31, name |-> "root",    cpu_percent |-> Some(900),
       memory_percent |-> Some(10),   raises |-> "AccessDenied"] }

\* Processes one enumeration returns at most.
MaxProcs == 3

\* Enumerations: sequences of distinct processes of the table.
Enumerations ==
    { e \in UNION { [1 .. n -> ProcessTable] : n \in 0 .. MaxProcs } :
        \A i, j \in DOMAIN e : i # j => e[i].pid # e[j].pid }

ProcInit ==
    /\ latest_cpu = 0 /\ latest_ram = 0 /\ latest_disk = 0
    /\ failed = 0
    /\ health_label = <<>>
    /\ cycles = 0
    /\ SamplerFields([bytes_recv |-> 0, bytes_sent |-> 0])
    /\ ProcFields
    /\ SafetyFields(NoHistory)
    /\ SecurityFields(NoAuthData)
    /\ CycleFields

\* One call of populate_processes.
Populate ==
    /\ \E procs \in Enumerations : populate_processes(procs)
    /\ UNCHANGED <<scoreVars, panelVars, samplerVars, safetyVars, securityVars,
                   cycleVars, cycles>>

ProcNext == Populate

SpecProc == ProcInit /\ [][ProcNext]_vars

Readable(proc) == proc.raises = "none"

Survivors == SelectSeq(enumerated, Readable)

TagOf(cpu) ==
    IF cpu < 20 * Tenths THEN "cpu_low"
    ELSE IF cpu >= 20 * Tenths /\ cpu < 50 * Tenths THEN "cpu_mid"
    ELSE "cpu_high"

\* C10: a process that raises NoSuchProcess or AccessDenied while its fields
\* are read is left out of the table; every other enumerated process appears
\* exactly once and in enumeration order, with a missing cpu/mem shown as 0
\* and the tag Low below 20, Mid from 20 to below 50, High otherwise; the
\* table holds no row of an earlier call.
C10_ProcessRows ==
    /\ Len(proc_tree) = Len(Survivors)
    /\ \A i \in 1 .. Len(proc_tree) :
          /\ proc_tree[i].pid = Survivors[i].pid
          /\ proc_tree[i].name = Survivors[i].name
          /\ proc_tree[i].cpu =
                (IF Survivors[i].cpu_percent = <<>> THEN 0
                 ELSE Survivors[i].cpu_percent[1])
          /\ (Survivors[i].memory_percent = <<>>) => proc_tree[i].mem = 0
          /\ proc_tree[i].tag = TagOf(proc_tree[i].cpu)
    /\ \A i \in 1 .. Len(enumerated) :
          Cardinality({ k \in 1 .. Len(proc_tree) :
                          proc_tree[k].pid = enumerated[i].pid })
            = (IF enumerated[i].raises = "none" THEN 1 ELSE 0)
    /\ \A k \in 1 .. Len(proc_tree) :
          \E i \in 1 .. Len(enumerated) : enumerated[i].pid = proc_tree[k].pid

\* An enumeration with a vanished process between two readable ones: both
\* are listed, in order, and the vanished one is not.
C10_Witness ==
    /\ Len(enumerated) = 3
    /\ enumerated[1].raises = "none"
    /\ enumerated[2].raises = "NoSuchProcess"
    /\ enumerated[3].raises = "none"
    /\ enumerated[3].cpu_percent = <<>>
    /\ Len(proc_tree) = 2
    /\ proc_tree[1].pid = enumerated[1].pid
    /\ proc_tree[1].tag = "cpu_mid"
    /\ proc_tree[2].pid = enumerated[3].pid
    /\ proc_tree[2].cpu = 0 /\ proc_tree[2].tag = "cpu_low"

\* --------------------------------------------- get_safety_check on its own

\* Lengths of the history file, around the window of 80 lines.
HistLengths == {0, 2, 80, 83}

\* Places of the two lines that are not plain commands.
MarkPositions == {1, 3, 4, 10, 40, 83}

MarkKinds == {"ls", "blank", "mkfs", "chmod", "chmod_mkfs", "rm", "bomb"}

\* A file of n lines, all "ls -la" but the lines at p1 and p2.
MarkedLines(n, p1, k1, p2, k2) ==
    [i \in 1 .. n |-> IF i = p1 THEN k1 ELSE IF i = p2 THEN k2 ELSE "ls"]

BashFiles ==
    { HistFile(TRUE, TRUE, MarkedLines(n, p1, k1, p2, k2)) :
        n \in HistLengths, p1 \in MarkPositions, k1 \in MarkKinds,
        p2 \in MarkPositions, k2 \in MarkKinds }

ZshFiles ==
    { NoFile,
      HistFile(TRUE, TRUE, <<"ls", "dd", "empty", "rmdir">>),
      HistFile(TRUE, FALSE, <<"mkfs">>) }

HistoryInputs ==
    { [bash |-> b, zsh |-> z] : b \in BashFiles, z \in {NoFile} }
      \cup { [bash |-> NoFile, zsh |-> z] : z \in ZshFiles }
      \cup { [bash |-> HistFile(TRUE, FALSE, <<"ls">>), zsh |-> z] : z \in ZshFiles }
      \cup { [bash |-> HistFile(TRUE, TRUE, <<"ls", "blank">>), zsh |-> z] :
                z \in ZshFiles }

SafetyInit ==
    /\ latest_cpu = 0 /\ latest_ram = 0 /\ latest_disk = 0
    /\ failed = 0
    /\ health_label = <<>>
    /\ cycles = 0
    /\ SamplerFields([bytes_recv |-> 0, bytes_sent |-> 0])
    /\ ProcFields
    /\ \E env \in HistoryInputs : SafetyFields(env)
    /\ SecurityFields(NoAuthData)
    /\ CycleFields

\* One call of get_safety_check, its result shown as at line 440.
SafetyCall ==
    /\ cycles = 0
    /\ safety_label' = get_safety_check(hist_env)
    /\ cycles' = cycles + 1
    /\ UNCHANGED <<scoreVars, panelVars, samplerVars, procVars, hist_env,
                   securityVars, cycleVars>>

SafetyNext == SafetyCall

SpecSafety == SafetyInit /\ [][SafetyNext]_vars

Checked == safety_label # <<>>

\* The history file in use: bash first, then zsh.
UsedFile ==
    IF hist_env.bash.exists THEN hist_env.bash ELSE hist_env.zsh

IsBlank(k) == \A i \in 1 .. Len(LineText(k)) : LineText(k)[i] \in {" ", "\n", "\t"}

BlankKinds == { k \in LineKinds : IsBlank(k) }

\* The places, in the file, of its non-blank lines.
NonBlankAt == { i \in 1 .. Len(UsedFile.lines) : UsedFile.lines[i] \notin BlankKinds }

\* The places of the last 80 non-blank lines.
WindowAt ==
    { i \in NonBlankAt : Cardinality({ j \in NonBlankAt : j >= i }) <= 80 }

Mkfs == <<"m", "k", "f", "s">>

Chmod777 == <<"c", "h", "m", "o", "d", " ", "7", "7", "7">>

\* The keywords of the fixed list that the line at place i contains.
BadIn(i) ==
    { b \in 1 .. Len(dangerous_keywords) :
        Contains(dangerous_keywords[b], LineText(UsedFile.lines[i])) }

DangerAt == { i \in WindowAt : BadIn(i) # {} }

Least(S) == CHOOSE x \in S : \A y \in S : x <= y

\* C9: get_safety_check scans only the last 80 non-blank history lines,
\* oldest first, and reports the keyword of the earliest line of that window
\* that contains one, the keyword earliest in the fixed list when the line
\* contains several; a dangerous line older than the window is not reported;
\* with no match the all-clear message is returned, and with neither history
\* file present "History file not found".
C9_EarliestLineInWindow ==
    Checked =>
        /\ (~hist_env.bash.exists /\ ~hist_env.zsh.exists)
              <=> safety_label = <<"History file not found">>
        /\ (UsedFile.exists /\ UsedFile.readable) =>
              IF DangerAt = {}
              THEN safety_label = <<"No extremely dangerous command found">>
              ELSE safety_label =
                     <<"WARNING: Dangerous command found -> ",
                       dangerous_keywords[Least(BadIn(Least(DangerAt)))]>>

\* The example of the specification: 80 lines, "mkfs /dev/sda" at place 10
\* and "chmod 777 /etc" at place 40; the mkfs line is reported.
C9_Witness ==
    /\ Checked
    /\ hist_env.bash.exists
    /\ Len(hist_env.bash.lines) = 80
    /\ hist_env.bash.lines[10] = "mkfs"
    /\ hist_env.bash.lines[40] = "chmod"
    /\ safety_label = <<"WARNING: Dangerous command found -> ", Mkfs>>

\* 83 lines with one of them blank: the line at place 3 is the first of the
\* window of 80 non-blank lines, and is reported.
C9_WindowEdge ==
    /\ Checked
    /\ Len(hist_env.bash.lines) = 83
    /\ hist_env.bash.lines[3] = "chmod"
    /\ hist_env.bash.lines[10] = "blank"
    /\ safety_label = <<"WARNING: Dangerous command found -> ", Chmod777>>

\* ------------------------------------------------- calls of update_panels

StdoutInputs ==
    { <<>>, <<"0", "\n">>, <<"3", "\n">>, <<"1", "2", "\n">>,
      <<"g", "r", "e", "p", ":", "\n">> }

RunInputs ==
    {RunRaised} \cup
      { Outcome(FALSE, rc, out) : rc \in {0, 1, 2}, out \in StdoutInputs }

\* With the file present the journal is either missing or would answer 12;
\* with the file absent grep is not run.
SecurityInputs ==
    { AuthSources(TRUE, g, TRUE, Outcome(FALSE, 0, <<"1", "2", "\n">>)) :
        g \in RunInputs }
      \cup { AuthSources(TRUE, g, FALSE, NoJournalctlOutcome) : g \in RunInputs }
      \cup { AuthSources(FALSE, RunRaised, TRUE, j) : j \in RunInputs }
      \cup { NoAuthData }

PanelHistories ==
    { NoHistory,
      [bash |-> HistFile(TRUE, TRUE, <<"ls", "dd", "mkfs">>), zsh |-> NoFile] }

LatestInputs ==
    { [cpu |-> 0, ram |-> 0, disk |-> 0] } \cup MetricInputs

PanelsInit ==
    /\ \E m \in LatestInputs :
          latest_cpu = m.cpu /\ latest_ram = m.ram /\ latest_disk = m.disk
    /\ failed = 0
    /\ health_label = <<>>
    /\ cycles = 0
    /\ SamplerFields([bytes_recv |-> 0, bytes_sent |-> 0])
    /\ ProcFields
    /\ SafetyFields(NoHistory)
    /\ SecurityFields(NoAuthData)
    /\ CycleFields

\* One call of update_panels.
Panels ==
    /\ cycles < MaxPanelCalls
    /\ \E henv \in PanelHistories, senv \in SecurityInputs :
          update_panels(latest_cpu, latest_ram, latest_disk, henv, senv)
    /\ cycles' = cycles + 1
    /\ UNCHANGED <<scoreVars, samplerVars, procVars, cycleVars>>

PanelsNext == Panels

SpecPanels == PanelsInit /\ [][PanelsNext]_vars

Queried == queries # <<>>

\* The run whose result get_security_info looked at.
RunLookedAt == IF sec_env.auth_log_exists THEN sec_env.grep ELSE JournalRun(sec_env)

Number(text) ==
    IF text = <<"0", "\n">> THEN 0
    ELSE IF text = <<"3", "\n">> THEN 3
    ELSE IF text = <<"1", "2", "\n">> THEN 12
    ELSE -1

\* The ordered chain without its last step: the journal is queried exactly
\* when the auth-log file does not exist; exit code 0 or 1 yields OK with the
\* number printed, 0 for empty output; any other exit code, an exception or
\* output that is no number yields a status other than OK and the count 0.
ChainSteps ==
    Queried =>
        /\ queries = (IF sec_env.auth_log_exists THEN <<"grep">> ELSE <<"journalctl">>)
        /\ (~RunLookedAt.raised /\ RunLookedAt.returncode \in {0, 1}
              /\ RunLookedAt.stdout = <<>>)
              => sec_result = [status |-> "OK", count |-> 0]
        /\ (~RunLookedAt.raised /\ RunLookedAt.returncode \in {0, 1}
              /\ Number(RunLookedAt.stdout) >= 0)
              => sec_result = [status |-> "OK", count |-> Number(RunLookedAt.stdout)]
        /\ (RunLookedAt.raised \/ RunLookedAt.returncode \notin {0, 1})
              => (sec_result.status # "OK" /\ sec_result.count = 0)

\* C7: get_security_info follows the ordered chain on every call (ChainSteps),
\* and when neither source is available (no auth-log file, no journalctl) the
\* result is ("No auth data available", 0), the unavailable status.
C7_FallbackChain ==
    /\ ChainSteps
    /\ (Queried /\ ~sec_env.auth_log_exists /\ ~sec_env.journalctl)
          => sec_result = [status |-> "No auth data available", count |-> 0]

\* C8: whenever the security status is not OK the failed-login count is 0, in
\* the scanner's result and in the value given to calculate_health_score, and
\* the health score shown is the score for failed_logins = 0.
C8_NoPenaltyWithoutData ==
    (Queried /\ sec_result.status # "OK") =>
        /\ sec_result.count = 0
        /\ failed = 0
        /\ health_label =
              <<calculate_health_score(latest_cpu, latest_ram, latest_disk, 0)>>

\* A failed query (exit code 2) whose output holds a number, on a host whose
\* load leaves room for a penalty: the score is the one for no failed login.
C8_Witness ==
    /\ Queried
    /\ sec_env.auth_log_exists
    /\ sec_env.grep = Outcome(FALSE, 2, <<"1", "2", "\n">>)
    /\ sec_result = [status |-> "Error reading auth.log", count |-> 0]
    /\ latest_cpu = 125
    /\ failed = 0
    /\ health_label = <<68>>

\* ---------------------------------------------------- calls of refresh_all

\* The collaborators whose failure leaves update_system_info or
\* populate_processes as an exception.
UncaughtReads == {"metrics", "disk", "net", "processes"}

\* History files: one that reads, one that exists and cannot be opened.
RefreshHistories ==
    { [bash |-> HistFile(TRUE, TRUE, <<"ls", "dd", "mkfs">>), zsh |-> NoFile],
      [bash |-> HistFile(TRUE, FALSE, <<>>), zsh |-> NoFile] }

\* Authentication sources: grep answers 3, grep fails with exit code 2, the
\* journal pipeline cannot be run.
RefreshSecurity ==
    { AuthSources(TRUE, Outcome(FALSE, 0, <<"3", "\n">>), FALSE,
                  NoJournalctlOutcome),
      AuthSources(TRUE, Outcome(FALSE, 2, <<>>), FALSE, NoJournalctlOutcome),
      AuthSources(FALSE, RunRaised, TRUE, RunRaised) }

\* What the processes enumeration yields (before it raises, if it does).
RefreshProcs ==
    <<[pid |-> 20, name |-> "bash", cpu_percent |-> Some(199),
       memory_percent |-> Some(123), raises |-> "none"],
      [pid |-> 31, name |-> "root", cpu_percent |-> Some(900),
       memory_percent |-> Some(10), raises |-> "AccessDenied"]>>

\* What the host returns to one call of refresh_all: every combination of
\* failing collaborators, and a security query that exits or never does (the
\* outcome held in senv is what the command gives if it exits).
RefreshReads ==
    { [cpu |-> 125, ram |-> 400, disk |-> 550, step |-> TicksPerSec,
       counters |-> [bytes_recv |-> 5120, bytes_sent |-> 1024],
       procs |-> RefreshProcs, fails |-> fs, henv |-> h, senv |-> sv,
       hangs |-> hg] :
        fs \in SUBSET UncaughtReads, h \in RefreshHistories,
        sv \in RefreshSecurity, hg \in BOOLEAN }

RefreshInit ==
    /\ latest_cpu = 0 /\ latest_ram = 0 /\ latest_disk = 0
    /\ failed = 0
    /\ health_label = <<>>
    /\ cycles = 0
    /\ SamplerFields([bytes_recv |-> 0, bytes_sent |-> 0])
    /\ ProcFields
    /\ SafetyFields(NoHistory)
    /\ SecurityFields(NoAuthData)
    /\ CycleFields

\* line 204: the first call of refresh_all, made by __init__.
InitRefresh ==
    /\ pc = "constructing"
    /\ timers_at_call' = timers
    /\ UNCHANGED timers
    /\ \E r \in RefreshReads : refresh_all_begin("__init__", r)

\* lines 328-329: a pending timer fires in the main loop, which removes it,
\* and auto_refresh calls refresh_all.
AutoRefreshFires ==
    /\ pc = "mainloop"
    /\ timers > 0
    /\ cycles < MaxRefreshes
    /\ timers' = timers - 1
    /\ timers_at_call' = timers - 1
    /\ \E r \in RefreshReads : refresh_all_begin("auto_refresh", r)

\* line 307: the Refresh button is pressed while the main loop is idle.
RefreshPressed ==
    /\ pc = "mainloop"
    /\ cycles < MaxRefreshes
    /\ timers_at_call' = timers
    /\ UNCHANGED timers
    /\ \E r \in RefreshReads : refresh_all_begin("refresh_button", r)

\* The command the security query runs exits and refresh_all goes on.
QueryReturns ==
    /\ pc = "in_query"
    /\ ~query_hangs
    /\ refresh_all_end

RefreshNext ==
    \/ InitRefresh
    \/ AutoRefreshFires
    \/ RefreshPressed
    \/ QueryReturns

SpecRefresh == RefreshInit /\ [][RefreshNext]_vars

\* A handler that is not blocked runs on, and the main loop fires a pending
\* timer.
SpecRefreshLive ==
    /\ RefreshInit
    /\ [][RefreshNext]_vars
    /\ WF_vars(InitRefresh)
    /\ WF_vars(QueryReturns)
    /\ WF_vars(AutoRefreshFires)

\* A call of refresh_all was made and is over.
RefreshOver == cycles > 0 /\ pc # "in_query"

\* The failures get_safety_check and get_security_info catch are replaced by
\* a status and a zero count, and the call runs its four steps.
CaughtFailures ==
    (RefreshOver /\ escaped = None) =>
        /\ steps = RefreshSteps
        /\ failing \subseteq {"history", "security"}
        /\ ("history" \in failing => safety_label = <<"Error reading history">>)
        /\ ("security" \in failing =>
               /\ sec_result.status # "OK"
               /\ sec_result.count = 0
               /\ failed = 0
               /\ security_label = <<sec_result.status>>)

\* C11: whatever collaborators fail, a call of refresh_all that is over has
\* run its four steps, no exception has left it, and each failed component
\* shows its status with its safe default.
C11_RefreshRunsToEnd ==
    RefreshOver =>
        /\ escaped = None
        /\ steps = RefreshSteps
        /\ CaughtFailures

\* The exceptions that leave refresh_all are those of the reads made outside
\* any try block, and the steps after the failing one are not run.
C11_UncaughtReadsEscape ==
    (RefreshOver /\ escaped # None) =>
        /\ escaped[1] \in UncaughtReads
        /\ failing = {escaped[1]}
        /\ Len(steps) < 2
        /\ (escaped[1] = "processes" <=> steps = <<"update_system_info">>)
        /\ pc = AfterException(caller)

\* The disk usage read raises in a call made by auto_refresh: nothing of the
\* refresh is done and no timer is pending afterwards.
C11_DiskFailureSeen ==
    /\ RefreshOver
    /\ caller = "auto_refresh"
    /\ escaped = Some("disk")
    /\ steps = <<>>
    /\ timers = 0

\* The call of refresh_all has returned and, when __init__ or auto_refresh
\* made it, the next cycle is scheduled.
CycleFinished ==
    /\ pc = "mainloop"
    /\ steps = RefreshSteps
    /\ (caller # "refresh_button" => timers = 1)

\* C12: a refresh cycle that has started its security query eventually
\* finishes and the next cycle is scheduled, also when the command of the
\* query never exits.
C12_CycleFinishes == (pc = "in_query") ~> CycleFinished

\* A cycle whose command exits does finish.
C12_ReturningQueryFinishes ==
    (pc = "in_query" /\ ~query_hangs) ~> CycleFinished

\* subprocess.run is called without a timeout (lines 79-83, 94): with a
\* command that never exits the Tk thread stays inside the call.
C12_BlockedInQuery ==
    [][(pc = "in_query" /\ query_hangs) => pc' = "in_query"]_vars

\* The cycle started by a timer is inside a query that never returns; no
\* timer is pending.
C12_HungQuerySeen ==
    /\ pc = "in_query"
    /\ query_hangs
    /\ caller = "auto_refresh"
    /\ timers = 0
    /\ steps = <<"update_system_info", "populate_processes">>

\* C13: at most one auto-refresh timer is pending at any time.  None is
\* pending before __init__ has made its first refresh, nor while a refresh
\* made by __init__ or by auto_refresh is running (the timer that fired is
\* consumed); exactly one is pending once such a refresh has returned; a
\* refresh made by the Refresh button leaves the number as it found it.
C13_AtMostOneTimer ==
    /\ timers \in {0, 1}
    /\ (pc = "constructing" => timers = 0)
    /\ (caller # "refresh_button" /\ pc = "in_query" => timers = 0)
    /\ (caller # "refresh_button" /\ RefreshOver /\ escaped = None =>
           timers = 1)
    /\ (caller # "refresh_button" /\ RefreshOver /\ escaped # None =>
           timers = 0)
    /\ (caller = "refresh_button" => timers = timers_at_call)

\* Three refreshes were made, the last one by the Refresh button while a
\* timer was pending: it has returned and that timer is still the only one.
C13_Witness ==
    /\ cycles = 3
    /\ caller = "refresh_button"
    /\ pc = "mainloop"
    /\ steps = RefreshSteps
    /\ timers_at_call = 1
    /\ timers = 1

\* The timer fired, auto_refresh has run its refresh and armed the next one.
C13_TimerRearmed ==
    /\ cycles = 3
    /\ caller = "auto_refresh"
    /\ pc = "mainloop"
    /\ steps = RefreshSteps
    /\ timers_at_call = 0
    /\ timers = 1

====
